---- MODULE Spec2Model ----
(***************************************************************************)
(* Phase Drift Explorer: the Streamlit script app_fixed.py as a state      *)
(* machine.  One script run is one pass over the file; the simulation loop *)
(* of lines 50-75 is split into its phases, one action per loop body step. *)
(*                                                                         *)
(* Reals are fixed-point integers in units of 0.5 (x = 1.0 is 2,           *)
(* m = [0.5, -0.5] is <<1, -1>>, theta = 1.0 is 2).  A norm is carried as   *)
(* its square, and "norm > theta" is "square of norm > theta * theta",     *)
(* which is the same comparison because theta > 0.                         *)
(*                                                                         *)
(* The classes of the simulation package (PhaseSpace, SymbolicState,       *)
(* KarmicConstraintField, Attractor, Observer, SymbolicVisualizer) are     *)
(* imported by the script; their laws follow sections 3 and 4 of the       *)
(* specification: deterministic, non-mutating, a force being the pair      *)
(* [identity part, memory part] of 1+D numbers.                            *)
(***************************************************************************)
EXTENDS Integers, Sequences, FiniteSets, TLC

\* ---------------------------------------------------------------- bounds
\* Largest population of states seeded into the PhaseSpace.
MaxStates == 2

\* ------------------------------------------------------ program constants
\* Dimension of the memory vector: np.array([0.5, -0.5]).
D == 2
\* Lower end of the "Timesteps" slider.
MinTimesteps == 10

\* Slider positions explored, in units of 0.5.
ThetaValues == {2, 3}
TimestepValues == {MinTimesteps, MinTimesteps + 1}
CenterValues == {0}
StrengthValues == {0, 1}

\* ------------------------------------------------------------- helpers
Sgn(d) == IF d > 0 THEN 1 ELSE IF d < 0 THEN -1 ELSE 0

RECURSIVE SumSq(_)
SumSq(v) == IF v = <<>> THEN 0 ELSE Head(v) * Head(v) + SumSq(Tail(v))

\* Python's seq[:k].
SliceTo(s, k) == SubSeq(s, 1, IF Len(s) < k THEN Len(s) ELSE k)

\* Python's any(...).
PyAny(bs) == \E i \in 1..Len(bs) : bs[i]

IsPrefix(a, b) == Len(a) <= Len(b) /\ a = SubSeq(b, 1, Len(a))

\* ------------------------------------------------------- engine classes
SymbolicState(x, m, r) == [x |-> x, m |-> m, r |-> r]

\* initial_state of the script is SeedState(1); the loop of lines 50-75 is
\* written for any population, so further seeds stand for further
\* add_state calls of a caller.
SeedState(i) == SymbolicState(4 - 2 * i, <<i, -i>>, "sin")
InitialStates(n) == [i \in 1..n |-> SeedState(i)]

\* identity_function=lambda t: 0
AttractorIdentityFunction(tt) == 0

\* round(cos(t)) for t = 0..12.
CosTable == <<1, 1, 0, -1, -1, 0, 1, 1, 0, -1, -1, 0, 1>>
ObserverIdentityFunction(tt) == CosTable[(tt % Len(CosTable)) + 1]

\* Attractor.stabilize: one unit toward the centre / the memory pattern.
Stabilize(att, state, tt) ==
    SymbolicState(
        state.x + Sgn(att.center_x - state.x) + AttractorIdentityFunction(tt),
        [k \in 1..D |-> state.m[k] + Sgn(att.memory_pattern[k] - state.m[k])],
        state.r)

\* Observer.boundary_deformation: a scalar scaled by the observer strength.
BoundaryDeformation(obs, state, tt) ==
    obs.memory_vector[1] * ObserverIdentityFunction(tt)

RECURSIVE CouplingX(_, _)
CouplingX(state, nbs) ==
    IF nbs = <<>> THEN 0
    ELSE Sgn(Head(nbs).x - state.x) + CouplingX(state, Tail(nbs))

RECURSIVE CouplingM(_, _, _)
CouplingM(state, nbs, k) ==
    IF nbs = <<>> THEN 0
    ELSE Sgn(Head(nbs).m[k] - state.m[k]) + CouplingM(state, Tail(nbs), k)

\* KarmicConstraintField.gradient: [identity part, memory part].
KceGradient(state, tt, neighbor_states) ==
    << CouplingX(state, neighbor_states),
       [k \in 1..D |-> CouplingM(state, neighbor_states, k)] >>

\* ------------------------------------------------------------ the script
\* A deformation added to every component (grad += delta_k).
GradientFunc_Broadcast(obs, state, tt, cur) ==
    LET delta_k == BoundaryDeformation(obs, state, tt)
        grad == KceGradient(state, tt, cur)
    IN  << grad[1] + delta_k, [k \in 1..D |-> grad[2][k] + delta_k] >>

\* def gradient_func(state), with the variables it closes over as arguments.
GradientFunc(obs, state, tt, cur) ==
    LET delta_k == BoundaryDeformation(obs, state, tt)
        grad == KceGradient(state, tt, cur)
    IN  [grad EXCEPT ![1] = @ + delta_k]

\* gradient_func(state)[:2]
GradSlice(g) == SliceTo(g, 2)

\* A norm argument that leaves the last memory component out.
Concatenate_DropsLast(g) == <<g[1]>> \o SubSeq(g[2], 1, Len(g[2]) - 1)

\* np.concatenate([np.atleast_1d(g[0]), g[1]])
Concatenate(g) == <<g[1]>> \o g[2]

\* np.linalg.norm(...), squared.
CollapseNormSq(g) == SumSq(Concatenate(g))

\* A threshold test that also fires on equality.
Collapsed_NonStrict(g, th) == SumSq(<<g[1]>> \o g[2]) >= th * th

\* np.linalg.norm(...) > ps.theta
Collapsed(g, th) == CollapseNormSq(g) > th * th

\* PhaseSpace.step: unit-step integration of one state.
Integrate(state, force) ==
    SymbolicState(state.x + force[1],
                  [k \in 1..D |-> state.m[k] + force[2][k]],
                  state.r)

\* SymbolicVisualizer.record: (identity, ||memory||^2) per state.
Snapshot(states) == [i \in 1..Len(states) |-> <<states[i].x, SumSq(states[i].m)>>]

VARIABLES
    pc,                 \* position of the script run
    click,              \* button that triggered the current script run
    timesteps,          \* slider value
    ps_theta,           \* ps.theta
    ps_states,          \* ps.states
    attractor,          \* Attractor fields
    observer,           \* Observer fields
    viz_history,        \* viz.history
    collapse_flags,     \* collapse_flags
    t,                  \* loop variable
    current_states,     \* current_states
    stabilized_states,  \* stabilized_states
    grads,              \* grads
    collapsed_flags,    \* collapsed_flags
    session_state,      \* st.session_state, a function on the keys present
    export_button,      \* "Export Animation as GIF" button is on the page
    warning,            \* st.warning(...) is on the page
    gif,                \* history handed to save_gif in this script run
    final_color,        \* colour of the final scatter
    step_forces,        \* forces ps.step evaluated in this timestep
    trace               \* engine calls of the current run, in order

vars == << pc, click, timesteps, ps_theta, ps_states, attractor, observer,
           viz_history, collapse_flags, t, current_states, stabilized_states,
           grads, collapsed_flags, session_state, export_button, warning, gif,
           final_color, step_forces, trace >>

runLocals == << timesteps, ps_theta, ps_states, attractor, observer,
                viz_history, collapse_flags, t, current_states,
                stabilized_states, grads, collapsed_flags, final_color,
                step_forces, trace >>

NoAttractor == [center_x |-> 0, memory_pattern |-> <<0, 0>>]
NoObserver == [memory_vector |-> <<0, 0>>]

\* The first page load: a script run without a click, about to reach line 119.
Init ==
    /\ pc = "export_section"
    /\ click = "none"
    /\ timesteps = MinTimesteps
    /\ ps_theta = 2
    /\ ps_states = <<>>
    /\ attractor = NoAttractor
    /\ observer = NoObserver
    /\ viz_history = <<>>
    /\ collapse_flags = <<>>
    /\ t = 0
    /\ current_states = <<>>
    /\ stabilized_states = <<>>
    /\ grads = <<>>
    /\ collapsed_flags = <<>>
    /\ session_state = << >>
    /\ export_button = FALSE
    /\ warning = FALSE
    /\ gif = <<"none">>
    /\ final_color = "none"
    /\ step_forces = <<>>
    /\ trace = <<>>

ScriptEnded == pc \in {"idle", "aborted"}

\* A script run starts with none of the previous run's names bound.
FreshLocals ==
    /\ viz_history' = <<>>
    /\ collapse_flags' = <<>>
    /\ t' = 0
    /\ current_states' = <<>>
    /\ stabilized_states' = <<>>
    /\ grads' = <<>>
    /\ collapsed_flags' = <<>>
    /\ final_color' = "none"
    /\ step_forces' = <<>>
    /\ trace' = <<>>

\* The page is redrawn from the top.
FreshPage ==
    /\ export_button' = FALSE
    /\ warning' = FALSE
    /\ gif' = <<"none">>

\* A click on "Run Simulation": lines 19-48.
RunSimulation ==
    /\ ScriptEnded
    /\ \E th \in ThetaValues, ts \in TimestepValues, c \in CenterValues,
          s \in StrengthValues, n \in 0..MaxStates :
        /\ ps_theta' = th
        /\ timesteps' = ts
        /\ ps_states' = InitialStates(n)
        /\ attractor' = [center_x |-> c, memory_pattern |-> <<0, 0>>]
        /\ observer' = [memory_vector |-> <<s, s>>]
    /\ click' = "run"
    /\ FreshLocals
    /\ FreshPage
    /\ pc' = "loop"
    /\ UNCHANGED session_state

\* for t in range(timesteps): current_states = ps.states (lines 50-59).
LoopHead ==
    /\ pc = "loop"
    /\ IF t < timesteps
       THEN /\ current_states' = ps_states
            /\ stabilized_states' = <<>>
            /\ pc' = "stabilize"
       ELSE /\ UNCHANGED << current_states, stabilized_states >>
            /\ pc' = "persist_history"
    /\ UNCHANGED << click, timesteps, ps_theta, ps_states, attractor, observer,
                    viz_history, collapse_flags, t, grads, collapsed_flags,
                    session_state, export_button, warning, gif, final_color,
                    step_forces, trace >>

\* One iteration of "for state in current_states" (lines 60-62).
StabilizeState ==
    /\ pc = "stabilize"
    /\ Len(stabilized_states) < Len(current_states)
    /\ LET i == Len(stabilized_states) + 1 IN
        /\ stabilized_states' =
               Append(stabilized_states, Stabilize(attractor, current_states[i], t))
        /\ trace' = Append(trace, <<"stabilize", i, t>>)
    /\ UNCHANGED << pc, click, timesteps, ps_theta, ps_states, attractor,
                    observer, viz_history, collapse_flags, t, current_states,
                    grads, collapsed_flags, session_state, export_button,
                    warning, gif, final_color, step_forces >>

\* The replacement made inside the stabilization loop.
InstallStabilized_InsideLoop ==
    /\ pc = "stabilize"
    /\ Len(stabilized_states) >= 1 \/ Len(current_states) = 0
    /\ ps_states' = stabilized_states
    /\ grads' = <<>>
    /\ trace' = Append(trace, <<"install", 0, t>>)
    /\ pc' = "gradients"
    /\ UNCHANGED << click, timesteps, ps_theta, attractor, observer,
                    viz_history, collapse_flags, t, current_states,
                    stabilized_states, collapsed_flags, session_state,
                    export_button, warning, gif, final_color, step_forces >>

\* ps.states = stabilized_states (line 63).
InstallStabilized ==
    /\ pc = "stabilize"
    /\ Len(stabilized_states) = Len(current_states)
    /\ ps_states' = stabilized_states
    /\ grads' = <<>>
    /\ trace' = Append(trace, <<"install", 0, t>>)
    /\ pc' = "gradients"
    /\ UNCHANGED << click, timesteps, ps_theta, attractor, observer,
                    viz_history, collapse_flags, t, current_states,
                    stabilized_states, collapsed_flags, session_state,
                    export_button, warning, gif, final_color, step_forces >>

\* One element of grads = [gradient_func(state)[:2] for state in ps.states].
EvalGradient ==
    /\ pc = "gradients"
    /\ Len(grads) < Len(ps_states)
    /\ LET i == Len(grads) + 1 IN
        /\ grads' = Append(grads,
               GradSlice(GradientFunc(observer, ps_states[i], t, current_states)))
        /\ trace' = Append(trace, <<"collapse", i, t>>)
    /\ UNCHANGED << pc, click, timesteps, ps_theta, ps_states, attractor,
                    observer, viz_history, collapse_flags, t, current_states,
                    stabilized_states, collapsed_flags, session_state,
                    export_button, warning, gif, final_color, step_forces >>

\* A flag list that gets an entry only for a timestep that collapsed.
CollapseFlags_OnlyCollapses ==
    /\ pc = "gradients"
    /\ Len(grads) = Len(ps_states)
    /\ collapsed_flags' = [i \in 1..Len(grads) |-> Collapsed(grads[i], ps_theta)]
    /\ collapse_flags' = IF PyAny(collapsed_flags')
                         THEN Append(collapse_flags, TRUE) ELSE collapse_flags
    /\ trace' = Append(trace, <<"flag", 0, t>>)
    /\ pc' = "step"
    /\ UNCHANGED << click, timesteps, ps_theta, ps_states, attractor, observer,
                    viz_history, t, current_states, stabilized_states, grads,
                    session_state, export_button, warning, gif, final_color,
                    step_forces >>

\* collapsed_flags = [...]; collapse_flags.append(any(collapsed_flags))
\* (lines 66-70).
CollapseFlags ==
    /\ pc = "gradients"
    /\ Len(grads) = Len(ps_states)
    /\ collapsed_flags' = [i \in 1..Len(grads) |-> Collapsed(grads[i], ps_theta)]
    /\ collapse_flags' = Append(collapse_flags, PyAny(collapsed_flags'))
    /\ trace' = Append(trace, <<"flag", 0, t>>)
    /\ pc' = "step"
    /\ UNCHANGED << click, timesteps, ps_theta, ps_states, attractor, observer,
                    viz_history, t, current_states, stabilized_states, grads,
                    session_state, export_button, warning, gif, final_color,
                    step_forces >>

\* An integration that runs on the states the timestep started with.
Step_OnStartStates ==
    /\ pc = "step"
    /\ step_forces' = [i \in 1..Len(ps_states) |->
                          GradientFunc(observer, current_states[i], t, current_states)]
    /\ ps_states' = [i \in 1..Len(ps_states) |->
                          Integrate(current_states[i], step_forces'[i])]
    /\ trace' = Append(trace, <<"step", 0, t>>)
    /\ pc' = "record"
    /\ UNCHANGED << click, timesteps, ps_theta, attractor, observer,
                    viz_history, collapse_flags, t, current_states,
                    stabilized_states, grads, collapsed_flags, session_state,
                    export_button, warning, gif, final_color >>

\* ps.step(gradient_func) (line 72).
Step ==
    /\ pc = "step"
    /\ step_forces' = [i \in 1..Len(ps_states) |->
                          GradientFunc(observer, ps_states[i], t, current_states)]
    /\ ps_states' = [i \in 1..Len(ps_states) |->
                          Integrate(ps_states[i], step_forces'[i])]
    /\ trace' = Append(trace, <<"step", 0, t>>)
    /\ pc' = "record"
    /\ UNCHANGED << click, timesteps, ps_theta, attractor, observer,
                    viz_history, collapse_flags, t, current_states,
                    stabilized_states, grads, collapsed_flags, session_state,
                    export_button, warning, gif, final_color >>

\* A record that keeps only the latest snapshot.
Record_KeepsLatest ==
    /\ pc = "record"
    /\ viz_history' = << Snapshot(ps_states) >>
    /\ trace' = Append(trace, <<"record", 0, t>>)
    /\ t' = t + 1
    /\ pc' = "loop"
    /\ UNCHANGED << click, timesteps, ps_theta, ps_states, attractor, observer,
                    collapse_flags, current_states, stabilized_states, grads,
                    collapsed_flags, session_state, export_button, warning,
                    gif, final_color, step_forces >>

\* viz.record(ps.states); st.text(...); next t (lines 73-75).
Record ==
    /\ pc = "record"
    /\ viz_history' = Append(viz_history, Snapshot(ps_states))
    /\ trace' = Append(trace, <<"record", 0, t>>)
    /\ t' = t + 1
    /\ pc' = "loop"
    /\ UNCHANGED << click, timesteps, ps_theta, ps_states, attractor, observer,
                    collapse_flags, current_states, stabilized_states, grads,
                    collapsed_flags, session_state, export_button, warning,
                    gif, final_color, step_forces >>

\* An engine call of the loop body raises; the script has
\* no try/except, so the script run ends there.
\* Where the script is inside an engine call that has a state to work on
\* (step and record of an empty population are no-ops).
InEngineCall ==
    \/ pc = "stabilize" /\ Len(stabilized_states) < Len(current_states)
    \/ pc = "gradients" /\ Len(grads) < Len(ps_states)
    \/ pc \in {"step", "record"} /\ Len(ps_states) > 0

\* A failure handler that stores what was recorded so far.
EngineFailure_SavesPartial ==
    /\ InEngineCall
    /\ pc' = "aborted"
    /\ session_state' =
          [k \in DOMAIN session_state \cup {"viz_history"} |->
              IF k = "viz_history" THEN viz_history ELSE session_state[k]]
    /\ UNCHANGED << click, runLocals, export_button, warning, gif >>

EngineFailure ==
    /\ InEngineCall
    /\ pc' = "aborted"
    /\ UNCHANGED << click, runLocals, session_state, export_button, warning, gif >>

\* st.session_state["viz_history"] = viz.history (line 77).
PersistHistory ==
    /\ pc = "persist_history"
    /\ session_state' =
          [k \in DOMAIN session_state \cup {"viz_history"} |->
              IF k = "viz_history" THEN viz_history ELSE session_state[k]]
    /\ pc' = "persist_flags"
    /\ UNCHANGED << click, runLocals, export_button, warning, gif >>

\* st.session_state["collapse_flags"] = collapse_flags (line 78).
PersistFlags ==
    /\ pc = "persist_flags"
    /\ session_state' =
          [k \in DOMAIN session_state \cup {"collapse_flags"} |->
              IF k = "collapse_flags" THEN collapse_flags ELSE session_state[k]]
    /\ pc' = "render"
    /\ UNCHANGED << click, runLocals, export_button, warning, gif >>

\* zip(*snapshot) of an empty snapshot cannot be unpacked into xs, ms.
Unpackable(history) == \A k \in 1..Len(history) : Len(history[k]) > 0

\* The plots of lines 80-116.
Render ==
    /\ pc = "render"
    /\ IF Unpackable(viz_history)
       THEN /\ final_color' =
                  IF viz_history = <<>> THEN "none"
                  ELSE IF collapse_flags[Len(collapse_flags)] THEN "red" ELSE "blue"
            /\ pc' = "export_section"
       ELSE /\ final_color' = final_color
            /\ pc' = "aborted"
    /\ UNCHANGED << click, timesteps, ps_theta, ps_states, attractor, observer,
                    viz_history, collapse_flags, t, current_states,
                    stabilized_states, grads, collapsed_flags, session_state,
                    export_button, warning, gif, step_forces, trace >>

\* A click on "Export Animation as GIF": the button must be on the page.
ExportClick ==
    /\ pc = "idle"
    /\ export_button
    /\ click' = "export"
    /\ ps_states' = <<>>
    /\ FreshLocals
    /\ FreshPage
    /\ pc' = "export_section"
    /\ UNCHANGED << timesteps, ps_theta, attractor, observer, session_state >>

\* A script rerun without a button click (a slider was moved).
SliderRerun ==
    /\ ScriptEnded
    /\ click' = "none"
    /\ ps_states' = <<>>
    /\ FreshLocals
    /\ FreshPage
    /\ pc' = "export_section"
    /\ UNCHANGED << timesteps, ps_theta, attractor, observer, session_state >>

\* Lines 119-134.
ExportSection ==
    /\ pc = "export_section"
    /\ IF "viz_history" \in DOMAIN session_state
       THEN /\ export_button' = TRUE
            /\ warning' = FALSE
            /\ gif' = IF click = "export"
                      THEN <<"saved", session_state["viz_history"]>>
                      ELSE <<"none">>
       ELSE /\ export_button' = FALSE
            /\ warning' = TRUE
            /\ gif' = <<"none">>
    /\ pc' = "idle"
    /\ UNCHANGED << click, runLocals, session_state >>

Next ==
    \/ RunSimulation
    \/ LoopHead
    \/ StabilizeState
    \/ InstallStabilized
    \/ EvalGradient
    \/ CollapseFlags
    \/ Step
    \/ Record
    \/ EngineFailure
    \/ PersistHistory
    \/ PersistFlags
    \/ Render
    \/ ExportClick
    \/ SliderRerun
    \/ ExportSection

Spec == Init /\ [][Next]_vars
\* ------------------------------------------------------------ properties
NumStates == Len(ps_states)

\* The engine calls of timestep k over n states, in the order of section 5.
ExpectedTimestep(n, k) ==
    [i \in 1..n |-> <<"stabilize", i, k>>] \o << <<"install", 0, k>> >>
    \o [i \in 1..n |-> <<"collapse", i, k>>] \o << <<"flag", 0, k>> >>
    \o << <<"step", 0, k>>, <<"record", 0, k>> >>

RECURSIVE ExpectedRun(_, _)
ExpectedRun(n, k) ==
    IF k = 0 THEN <<>> ELSE ExpectedRun(n, k - 1) \o ExpectedTimestep(n, k - 1)

\* The Euclidean norm, squared, over all 1+D components of a force.
ForceNormSq(f) == f[1] * f[1] + SumSq(f[2])

\* The force on state i of the installed, stabilized population.
ForceOn(i) == GradientFunc(observer, stabilized_states[i], t, current_states)

\* C1: in every timestep the engine calls come in the fixed order stabilize
\* (every state, then the replacement of ps.states), collapse evaluation
\* (every state), step, one record; timestep k+1 starts after the record of k.
C1_PhaseOrder ==
    /\ IsPrefix(trace, ExpectedRun(NumStates, timesteps))
    /\ pc = "gradients" => ps_states = stabilized_states
    /\ pc = "stabilize" => Len(trace) = Len(ExpectedRun(NumStates, t)) + Len(stabilized_states)

C1_Witness ==
    /\ pc = "loop"
    /\ t = 2
    /\ NumStates = 2
    /\ trace = ExpectedRun(2, 2)

\* C2: the collapse decision of state i is taken on the stabilized state i
\* before integration, and the force compared against theta is the force
\* ps.step integrates state i with.
C2_SameForce ==
    /\ pc = "step" => /\ ps_states = stabilized_states
                      /\ Len(grads) = NumStates
                      /\ \A i \in 1..NumStates : grads[i] = ForceOn(i)
    /\ pc = "record" =>
          /\ Len(step_forces) = Len(grads)
          /\ \A i \in 1..Len(grads) :
                /\ step_forces[i] = grads[i]
                /\ grads[i] = ForceOn(i)
                /\ collapsed_flags[i] = (ForceNormSq(grads[i]) > ps_theta * ps_theta)
                /\ ps_states[i] = Integrate(stabilized_states[i], grads[i])

C2_Witness ==
    /\ pc = "record"
    /\ NumStates = 2
    /\ t >= 1
    /\ stabilized_states /= current_states
    /\ ps_states /= stabilized_states
    /\ \E i \in 1..2 : collapsed_flags[i]

\* C3: the neighbor_states handed to the gradient are the stabilized states
\* held in ps.states, so the evaluated state is one of them.
C3_NeighborsAreStabilized ==
    pc \in {"gradients", "step"} =>
        /\ current_states = ps_states
        /\ \A i \in 1..NumStates :
              \E j \in 1..Len(current_states) : current_states[j] = ps_states[i]

\* C4: the flag appended for a timestep is true exactly when some state's
\* force norm is strictly greater than theta.
C4_FlagIsAny ==
    pc = "step" =>
        /\ Len(collapse_flags) = t + 1
        /\ collapse_flags[t + 1] =
              (\E i \in 1..NumStates : ForceNormSq(ForceOn(i)) > ps_theta * ps_theta)

C4_Witness ==
    /\ pc = "step"
    /\ \E i \in 1..NumStates : ForceNormSq(ForceOn(i)) = ps_theta * ps_theta
    /\ ~ collapse_flags[t + 1]
    /\ \E k \in 1..t : collapse_flags[k]

IsEvent(name, e) == e[1] = name
IsFlagEvent(e) == IsEvent("flag", e)
IsRecordEvent(e) == IsEvent("record", e)

\* The timesteps whose record has happened, in order.
RecordedTimesteps == [k \in 1..Len(SelectSeq(trace, IsRecordEvent)) |->
                          SelectSeq(trace, IsRecordEvent)[k][3]]
\* The timesteps whose flag has been appended, in order.
FlaggedTimesteps == [k \in 1..Len(SelectSeq(trace, IsFlagEvent)) |->
                          SelectSeq(trace, IsFlagEvent)[k][3]]

\* C6: the history is as long as the number of timesteps fully executed, and
\* within a script run a snapshot once recorded keeps its place and content.
C6_HistoryLength ==
    /\ [](Len(viz_history) = Len(RecordedTimesteps))
    /\ [][~ ScriptEnded => IsPrefix(viz_history, viz_history')]_vars

C6_Witness ==
    /\ pc = "stabilize"
    /\ NumStates = 2
    /\ Len(viz_history) = 3
    /\ viz_history[1] /= viz_history[2]
    /\ RecordedTimesteps = <<0, 1, 2>>

\* C7: after an engine failure in timestep k no later timestep runs and the
\* history of the k-1 completed timesteps is what the caller can inspect,
\* that is, what st.session_state holds for the export section.
C7_PartialHistoryInspectable ==
    (pc = "aborted" /\ t < timesteps /\ Len(viz_history) >= 1) =>
        /\ "viz_history" \in DOMAIN session_state
        /\ session_state["viz_history"] = viz_history

\* C8: the combined force is the gradient with boundary_deformation added
\* once to the identity component and the memory components untouched.
C8_DeformationOnIdentityOnly ==
    /\ pc \in {"gradients", "step"} =>
          \A i \in 1..Len(grads) :
             /\ grads[i][1] = KceGradient(ps_states[i], t, current_states)[1]
                                + BoundaryDeformation(observer, ps_states[i], t)
             /\ grads[i][2] = KceGradient(ps_states[i], t, current_states)[2]
    /\ pc = "record" =>
          \A i \in 1..Len(step_forces) :
             /\ step_forces[i][1] =
                    KceGradient(stabilized_states[i], t, current_states)[1]
                    + BoundaryDeformation(observer, stabilized_states[i], t)
             /\ step_forces[i][2] =
                    KceGradient(stabilized_states[i], t, current_states)[2]

C8_Witness ==
    /\ pc = "record"
    /\ \E i \in 1..Len(step_forces) :
          /\ BoundaryDeformation(observer, stabilized_states[i], t) < 0
          /\ KceGradient(stabilized_states[i], t, current_states)[1] /= 0
          /\ step_forces[i][2] /= <<0, 0>>

\* C9: at every timestep boundary the flags and the history are equally long
\* and entry k of each comes from timestep k; after a completed run both
\* have length timesteps, and the final plot pairs the last flag with the
\* last snapshot.
C9_FlagsMatchHistory ==
    /\ pc = "loop" =>
          /\ Len(collapse_flags) = Len(viz_history)
          /\ Len(collapse_flags) = t
          /\ FlaggedTimesteps = [k \in 1..t |-> k - 1]
          /\ RecordedTimesteps = [k \in 1..t |-> k - 1]
    /\ pc \in {"persist_history", "persist_flags", "render"} =>
          /\ Len(collapse_flags) = timesteps
          /\ Len(viz_history) = timesteps
    /\ final_color /= "none" =>
          /\ Len(collapse_flags) = Len(viz_history)
          /\ final_color = (IF collapse_flags[Len(viz_history)] THEN "red" ELSE "blue")

C9_Witness ==
    /\ pc = "export_section"
    /\ click = "run"
    /\ timesteps = MinTimesteps + 1
    /\ final_color = "red"
    /\ \E k \in 1..Len(collapse_flags) : ~ collapse_flags[k]

SessionKeys == DOMAIN session_state

\* The session holds both results of one completed run, or neither.
SessionConsistent ==
    \/ SessionKeys = {}
    \/ /\ SessionKeys = {"viz_history", "collapse_flags"}
       /\ Len(session_state["viz_history"]) = Len(session_state["collapse_flags"])

====
